---- MODULE Spec2Model ----
(***************************************************************************)
(* Model of the HTTP session layer of json-mcp-server (startHttpServer in  *)
(* index.js): the express middleware chain, the auth gate, the session     *)
(* registry `transports`, the POST/GET/DELETE handlers on /mcp and the     *)
(* SIGINT handler.                                                         *)
(*                                                                         *)
(* One action is one turn of the Node.js event loop: a handler runs from   *)
(* its event to the first await on real I/O.  An await on an already       *)
(* settled promise (mcpServer.connect, onsessioninitialized) resumes in    *)
(* the microtask queue, which is drained before the next event, so it is   *)
(* not an interleaving point.                                              *)
(*                                                                         *)
(* The calls into @modelcontextprotocol/sdk (Server.connect,               *)
(* StreamableHTTPServerTransport.handleRequest / close) are modelled at    *)
(* their call sites by the effects they have on the state of index.js.     *)
(***************************************************************************)
EXTENDS Integers, Sequences, FiniteSets, TLC

\* ---------------------------------------------------------------- bounds
MaxTransports == 2   \* transports constructed in one run
MaxOpen == 2         \* connections open at the same time
MaxTime == 2         \* distinct last-modified times of an object or file

\* ------------------------------------------------------------ JS values
Null == "<null>"          \* null / undefined string value
Undefined == 0            \* transports[k] for a key that resolves to nothing
Inherited == -1           \* transports[k] resolved on Object.prototype
NoTransport == 0          \* server._transport === undefined

TransportIds == 1..MaxTransports

randomUUID_Repeats(n) == "s1"

\* crypto.randomUUID(): the n-th call returns a value never returned before
UuidPool == <<"s1", "s2", "s3", "s4", "s5">>
randomUUID(n) == UuidPool[n]

\* property names every plain object ({}) inherits from Object.prototype
ObjectPrototypeKeys == {"constructor", "__proto__"}

\* the single Server instance created at module load and passed to
\* startHttpServer(server) as mcpServer
mcpServer == "server"

\* ------------------------------------------------------- request inputs
Methods == {"POST", "GET", "DELETE"}
NoAuthHeader == [scheme |-> "", cred |-> ""]
AuthHeaders == {NoAuthHeader,
                [scheme |-> "Bearer", cred |-> "secret"],
                [scheme |-> "Bearer", cred |-> "wrong"]}
TokenParams == {"", "secret"}
SessionHeaders == {Null, "nope", "constructor"}
                    \cup {randomUUID(n) : n \in TransportIds}
Bodies == {"initialize", "tools/call", "invalid", "malformed"}
TokenConfigs == {Null, "secret"}

VARIABLES
  AUTH_TOKEN,       \* process.env.AUTH_TOKEN
  transports,       \* registry: session id -> transport
  tr,               \* the transport objects constructed so far
  ntr,              \* number of transports constructed
  serverTransport,  \* server._transport, set by Server.connect
  accepted,         \* requests accepted, body being read by express.json()
  pending,          \* per transport: tool calls dispatched, response open
  streams,          \* transports with an open GET push channel
  listening,        \* httpServer accepts new connections
  shuttingDown,     \* the SIGINT handler has run
  exited,           \* the process is gone
  exitCode,
  last,             \* the /mcp request the latest step handled, its answer
  deleted,          \* history: session ids closed by a DELETE
  health            \* the /health probe the latest step answered

\* module load: one option of lines 281-290 and where its value comes from
VARIABLES
  option,           \* the option looked at
  envValue,         \* process.env[option]
  cliValue,         \* program.opts()[option]: the argument or its default
  effective         \* the constant computed from them

configVars == <<option, envValue, cliValue, effective>>

\* main(): startup
VARIABLES
  pc,               \* where main() is waiting
  S3_URI,
  DEFAULT_FILE_PATH,
  TRANSPORT_TYPE,
  JQ_PATH,
  jqProbe,          \* what initializeJq found on the machine
  JQ_CONFIG,        \* the options handed to jq.run
  s3Info,           \* what getS3FileInfo returned to syncFromS3
  localInfo,        \* what getLocalFileInfo returned to syncFromS3
  syncResult,       \* how the S3 step of main() ended
  downloads,        \* calls of downloadFromS3
  connected,        \* server.connect(new StdioServerTransport()) has run
  startupLog        \* history: the steps of main() in the order they ended

startupVars == <<pc, S3_URI, DEFAULT_FILE_PATH, TRANSPORT_TYPE, JQ_PATH,
                 jqProbe, JQ_CONFIG, s3Info, localInfo, syncResult, downloads,
                 connected, startupLog>>

\* the CallTool handler
VARIABLES
  VERBOSE,
  call,             \* the tools/call request being handled
  result            \* what the handler gave back for it

toolVars == <<VERBOSE, call, result>>

\* what the process writes
VARIABLES
  LOG_FILE,               \* process.env.LOG_FILE, "" when not set
  AWS_ACCESS_KEY_ID,      \* sequences of characters, empty when not set
  AWS_SECRET_ACCESS_KEY,
  logPc,                  \* the part of the program that writes next
  stdout,                 \* lines written by console.log
  stderr,                 \* lines written by console.error
  logFile                 \* lines appended to LOG_FILE

logVars == <<LOG_FILE, AWS_ACCESS_KEY_ID, AWS_SECRET_ACCESS_KEY, logPc, stdout,
             stderr, logFile>>

httpVars == <<AUTH_TOKEN, transports, tr, ntr, serverTransport, accepted,
              pending, streams, listening, shuttingDown, exited, exitCode,
              last, deleted, health>>

\* the HTTP state main() does not touch while it starts up
sessionVars == <<AUTH_TOKEN, transports, tr, ntr, serverTransport, accepted,
                 pending, streams, shuttingDown, last, deleted, health>>

vars == <<httpVars, configVars, startupVars, toolVars, logVars>>

NoTr == [sessionId |-> Null, initialized |-> FALSE, started |-> FALSE,
         closed |-> FALSE, engine |-> Null]

NoRequest == [method |-> "", authHeader |-> NoAuthHeader, tokenParam |-> "",
              sid |-> Null, body |-> "", status |-> 0, by |-> "",
              invoked |-> FALSE, t |-> 0]

NoProbe == [authHeader |-> NoAuthHeader, sid |-> Null, body |-> "",
            status |-> 0, answer |-> ""]

RECURSIVE SumTo(_, _)
SumTo(f, n) == IF n = 0 THEN 0 ELSE f[n] + SumTo(f, n - 1)

\* connections that keep httpServer from closing
OpenConnections ==
  accepted + SumTo(pending, MaxTransports) + Cardinality(streams)

\* ------------------------------------------------------------ auth gate
Falsy(s) == s \in {Null, ""}

ProvidedToken_QueryFirst(authHeader, tokenParam) ==
  IF ~Falsy(tokenParam) THEN tokenParam
  ELSE IF authHeader.scheme = "Bearer" THEN authHeader.cred
  ELSE Null

\* authenticate: the credential the request presents
ProvidedToken(authHeader, tokenParam) ==
  IF authHeader.scheme = "Bearer" THEN authHeader.cred
  ELSE IF ~Falsy(tokenParam) THEN tokenParam
  ELSE Null

Authenticate_AllowsMissing(authHeader, tokenParam) ==
  \/ Falsy(AUTH_TOKEN)
  \/ ProvidedToken(authHeader, tokenParam) \in {Null, AUTH_TOKEN}

\* authenticate: TRUE iff next() is called
Authenticate(authHeader, tokenParam) ==
  IF Falsy(AUTH_TOKEN) THEN TRUE
  ELSE ProvidedToken(authHeader, tokenParam) = AUTH_TOKEN

\* ------------------------------------------------------------- registry
\* transports[sessionId] on the plain object `transports`
Lookup(sessionId) ==
  IF sessionId \in DOMAIN transports THEN transports[sessionId]
  ELSE IF sessionId \in ObjectPrototypeKeys THEN Inherited
  ELSE Undefined

isInitializeRequest_Any(body) == body # "malformed"

isInitializeRequest_Lenient(body) == body \in {"initialize", "invalid"}

isInitializeRequest(body) == body = "initialize"

onsessioninitialized_Forgets(sessionId, t) == transports

onsessioninitialized_Overwrites(sessionId, t) == [k \in {sessionId} |-> t]

\* onsessioninitialized: transports[sessionId] = transport
onsessioninitialized(sessionId, t) ==
  [k \in DOMAIN transports \cup {sessionId} |->
     IF k = sessionId THEN t ELSE transports[k]]

RegistryAfterClose_Clears(S) == IF S = {} THEN transports ELSE <<>>

RegistryAfterClose_Keeps(S) == transports

RegistryAfterClose_Latest(S) ==
  [k \in {k \in DOMAIN transports :
            S = {} \/ ntr = 0 \/ tr[ntr].sessionId # k}
     |-> transports[k]]

\* transport.close() for every transport of S, each firing its onclose:
\* the hook of index.js (delete transports[transport.sessionId]) and then
\* the one Server.connect chained behind it (server._transport = undefined)
RegistryAfterClose(S) ==
  [k \in {k \in DOMAIN transports :
            \A t \in S : Falsy(tr[t].sessionId) \/ tr[t].sessionId # k}
     |-> transports[k]]

CloseAll(S) ==
  /\ transports' = RegistryAfterClose(S)
  /\ tr' = [t \in TransportIds |-> IF t \in S THEN [tr[t] EXCEPT !.closed = TRUE]
                         ELSE tr[t]]
  /\ serverTransport' = IF S = {} THEN serverTransport ELSE NoTransport
  /\ streams' = streams \ S
  /\ pending' = [t \in TransportIds |-> IF t \in S THEN 0 ELSE pending[t]]

\* ------------------------------------------------- configuration constants
\* Option values are strings, written as sequences of characters so that
\* parseInt and split can be computed on them.  Unset is process.env.X or
\* options.x being undefined, which differs from the empty string.
Unset == <<"<undefined>">>
Empty == <<>>

Options == {"VERBOSE", "FILE_PATH", "JQ_PATH", "S3_URI", "AWS_REGION",
            "TRANSPORT", "PORT", "HOST", "CORS_ORIGIN"}

\* the third argument of .option(...): what program.opts() holds when the
\* argument is not on the command line
CliDefault(opt) ==
  CASE opt = "VERBOSE" -> <<"f", "a", "l", "s", "e">>
    [] opt = "AWS_REGION" -> <<"u", "s", "-", "e", "a", "s", "t", "-", "1">>
    [] opt = "TRANSPORT" -> <<"s", "t", "d", "i", "o">>
    [] opt = "PORT" -> <<"3", "0", "0", "0">>
    [] opt = "HOST" -> <<"l", "o", "c", "a", "l", "h", "o", "s", "t">>
    [] opt = "CORS_ORIGIN" -> <<"*">>
    [] OTHER -> Unset

\* values the environment may hold for an option
EnvValues(opt) ==
  {Unset, Empty}
    \cup (CASE opt = "VERBOSE" -> {<<"t", "r", "u", "e">>, <<"1">>}
            [] opt = "PORT" -> {<<"8", "0">>, <<"8", "0", "x">>, <<"x">>}
            [] opt = "CORS_ORIGIN" -> {<<"*">>, <<"a">>, <<"a", ",", "b">>}
            [] OTHER -> {<<"e">>, <<"e", "2">>})

\* values the command line may give program.opts() for an option
CliValues(opt) ==
  {CliDefault(opt)}
    \cup (CASE opt = "VERBOSE" -> {<<"t", "r", "u", "e">>}
            [] opt = "PORT" -> {<<"9", "0">>}
            [] opt = "CORS_ORIGIN" -> {<<"c">>, <<"c", ",", "d">>}
            [] OTHER -> {<<"c">>})

EnvOrCli_CliFirst(env, cli) == IF cli \in {Unset, Empty} THEN env ELSE cli

\* process.env.X || options.x
EnvOrCli(env, cli) == IF env \in {Unset, Empty} THEN cli ELSE env

NaN == -1

IsDigit(c) == c \in {"0", "1", "2", "3", "4", "5", "6", "7", "8", "9"}

DigitValue(c) ==
  CASE c = "0" -> 0 [] c = "1" -> 1 [] c = "2" -> 2 [] c = "3" -> 3
    [] c = "4" -> 4 [] c = "5" -> 5 [] c = "6" -> 6 [] c = "7" -> 7
    [] c = "8" -> 8 [] c = "9" -> 9

\* the value of the longest prefix of s made of digits, read after acc
RECURSIVE ParseDigits(_, _)
ParseDigits(s, acc) ==
  IF s = <<>> \/ ~IsDigit(Head(s)) THEN acc
  ELSE ParseDigits(Tail(s), 10 * acc + DigitValue(Head(s)))

\* parseInt(s) for s without sign or leading blanks
parseInt(s) ==
  IF s = <<>> \/ s = Unset \/ ~IsDigit(Head(s)) THEN NaN
  ELSE ParseDigits(s, 0)

\* s.split(","), cur being the piece read so far
RECURSIVE split(_, _)
split(s, cur) ==
  IF s = <<>> THEN <<cur>>
  ELSE IF Head(s) = "," THEN <<cur>> \o split(Tail(s), <<>>)
  ELSE split(Tail(s), Append(cur, Head(s)))

\* what lines 281-290 make of the string raw chosen for an option
Convert(opt, raw) ==
  CASE opt = "VERBOSE" -> (raw = <<"t", "r", "u", "e">>)
    [] opt = "PORT" -> parseInt(raw)
    [] opt = "CORS_ORIGIN" -> IF raw = <<"*">> THEN <<"*">>
                              ELSE split(raw, <<>>)
    [] OTHER -> raw

\* lines 281-290: the constant an option ends up as
Effective(opt, env, cli) == Convert(opt, EnvOrCli(env, cli))

NotEvaluated == [done |-> FALSE, value |-> <<>>]

\* the module has been loaded: nothing further is computed
ConfigLoaded ==
  /\ option = "TRANSPORT"
  /\ envValue = Unset
  /\ cliValue = <<"h", "t", "t", "p">>
  /\ effective = [done |-> TRUE, value |-> <<"h", "t", "t", "p">>]

\* the module is about to evaluate the constant of one option
ConfigInit ==
  /\ option \in Options
  /\ envValue \in EnvValues(option)
  /\ cliValue \in CliValues(option)
  /\ effective = NotEvaluated

\* ------------------------------------------------------------------ main()
\* S3 URIs are sequences of pieces, file paths sequences of segments; the
\* empty sequence is the unset (or empty) option, which `&&` treats alike
Times == 1..MaxTime

S3Uris == {<<>>,
           <<"s3://", "bucket", "/", "key">>,
           <<"s3://", "bucket">>,
           <<"s3://", "bucket", "/">>,
           <<"bucket", "/", "key">>}

TransportTypes == {"http", "stdio", "sse"}

NoInfo == [known |-> FALSE, exists |-> FALSE, lastModified |-> 0]

\* what HeadObject may answer: the object with or without LastModified
\* (0), NotFound, or an error getS3FileInfo throws on
HeadOutcomes ==
  {[error |-> FALSE, exists |-> TRUE, lastModified |-> m] : m \in 0..MaxTime}
    \cup {[error |-> FALSE, exists |-> FALSE, lastModified |-> 0],
          [error |-> TRUE, exists |-> FALSE, lastModified |-> 0]}

\* what fsPromises.stat may answer: the file with its mtime, ENOENT, or an
\* error getLocalFileInfo rethrows
StatOutcomes ==
  {[error |-> FALSE, exists |-> TRUE, lastModified |-> m] : m \in Times}
    \cup {[error |-> FALSE, exists |-> FALSE, lastModified |-> 0],
          [error |-> TRUE, exists |-> FALSE, lastModified |-> 0]}

\* index of the first "/" of s at or after position i, 0 when there is none
RECURSIVE indexOfSlash(_, _)
indexOfSlash(s, i) ==
  IF i > Len(s) THEN 0
  ELSE IF s[i] = "/" THEN i
  ELSE indexOfSlash(s, i + 1)

\* parseS3Uri: ok is FALSE where it throws
parseS3Uri(s3Uri) ==
  LET bad == [ok |-> FALSE, bucket |-> <<>>, key |-> <<>>] IN
  IF s3Uri = <<>> \/ Head(s3Uri) # "s3://" THEN bad
  ELSE LET withoutProtocol == Tail(s3Uri)
           slashIndex == indexOfSlash(withoutProtocol, 1)
       IN IF slashIndex = 0 THEN bad
          ELSE LET bucket == SubSeq(withoutProtocol, 1, slashIndex - 1)
                   key == SubSeq(withoutProtocol, slashIndex + 1,
                                 Len(withoutProtocol))
               IN IF bucket = <<>> \/ key = <<>> THEN bad
                  ELSE [ok |-> TRUE, bucket |-> bucket, key |-> key]

isS3FileNewer_NotStrict(s3, local) ==
  IF ~local.exists THEN TRUE
  ELSE IF ~s3.exists \/ s3.lastModified = 0 \/ local.lastModified = 0
    THEN FALSE
  ELSE s3.lastModified >= local.lastModified

isS3FileNewer(s3, local) ==
  IF ~local.exists THEN TRUE
  ELSE IF ~s3.exists \/ s3.lastModified = 0 \/ local.lastModified = 0
    THEN FALSE
  ELSE s3.lastModified > local.lastModified

\* the last part of main(): the transport TRANSPORT_TYPE names is started,
\* or main() throws and main().catch exits with code 1
StartTransport ==
  IF TRANSPORT_TYPE = "http"
    THEN [pc |-> "listen", connected |-> FALSE, exited |-> FALSE, exitCode |-> 0]
  ELSE IF TRANSPORT_TYPE = "stdio"
    THEN [pc |-> "ready", connected |-> TRUE, exited |-> FALSE, exitCode |-> 0]
  ELSE [pc |-> "exit", connected |-> FALSE, exited |-> TRUE, exitCode |-> 1]

main_AfterSync_Rethrows(outcome) ==
  IF outcome = "failed"
    THEN [pc |-> "exit", connected |-> FALSE, exited |-> TRUE, exitCode |-> 1]
    ELSE StartTransport

\* main() after the S3 step: the try/catch around syncFromS3 logs a failure
\* and goes on
main_AfterSync(outcome) == StartTransport

\* the S3 step of main() ends with outcome, log being the steps ended so
\* far, and main() runs on to the transport
EndSync(log, outcome) ==
  \E n \in {main_AfterSync(outcome)} :
    /\ syncResult' = outcome
    /\ pc' = n.pc
    /\ connected' = n.connected
    /\ exited' = n.exited
    /\ exitCode' = n.exitCode
    /\ startupLog' = log \o <<"syncFromS3">>
                       \o (IF n.pc = "exit" THEN <<>> ELSE <<"startTransport">>)

\* ------------------------------------------------------------ initializeJq
\* paths of jq binaries; "" is no path: JQ_PATH unset or empty, which(...)
\* rejecting
CustomJq == "/opt/jq/bin/jq"
WhichJq == "/usr/local/bin/jq"
WhichJqExe == "C:/jq/jq.exe"
commonPath == "/usr/bin/jq"

JqPaths == {"", CustomJq}

NoJqProbe == [platform |-> "", whichJq |-> "", whichJqExe |-> "",
              commonPathExists |-> FALSE, accessible |-> FALSE]

\* what the machine answers to initializeJq: process.platform, which("jq"),
\* which("jq.exe"), fsPromises.access(commonPath, F_OK) and
\* fsPromises.access(jqPath) of the path chosen.  An answer initializeJq
\* does not ask for on its path is left at its absent value.
JqProbes ==
  {e \in [platform : {"linux", "win32"}, whichJq : {"", WhichJq},
          whichJqExe : {"", WhichJqExe}, commonPathExists : BOOLEAN,
          accessible : BOOLEAN] :
     /\ (JQ_PATH # "" \/ e.whichJq # "")
          => (e.whichJqExe = "" /\ ~e.commonPathExists)
     /\ JQ_PATH # "" => e.whichJq = ""
     /\ e.platform = "win32" => ~e.commonPathExists
     /\ e.platform = "linux" => e.whichJqExe = ""}

\* lines 384-416: the path initializeJq settles on, "" where it throws
\* whichError
detectJq(e) ==
  IF JQ_PATH # "" THEN JQ_PATH
  ELSE IF e.whichJq # "" THEN e.whichJq
  ELSE IF e.platform = "win32" THEN e.whichJqExe
  ELSE IF e.commonPathExists THEN commonPath
  ELSE ""

NoJqConfig == [jqPath |-> "", input |-> ""]

jqConfigured_Unverified(e) ==
  IF detectJq(e) # ""
    THEN [jqPath |-> detectJq(e), input |-> "json"]
    ELSE NoJqConfig

\* lines 418-433: JQ_CONFIG once the path has been verified, NoJqConfig
\* where initializeJq throws and its catch calls process.exit(1)
jqConfigured(e) ==
  IF detectJq(e) # "" /\ e.accessible
    THEN [jqPath |-> detectJq(e), input |-> "json"]
    ELSE NoJqConfig

\* the state Init of the HTTP layer is reached in: main() has gone through
\* with TRANSPORT_TYPE http and no S3 URI
Started ==
  /\ pc = "ready"
  /\ JQ_PATH = ""
  /\ jqProbe = [NoJqProbe EXCEPT !.platform = "linux", !.whichJq = WhichJq,
                                 !.accessible = TRUE]
  /\ JQ_CONFIG = [jqPath |-> WhichJq, input |-> "json"]
  /\ S3_URI = <<>>
  /\ TRANSPORT_TYPE = "http"
  /\ s3Info = NoInfo
  /\ localInfo = NoInfo
  /\ syncResult = "skipped"
  /\ downloads = 0
  /\ connected = FALSE
  /\ startupLog = <<"initializeJq", "syncFromS3", "startTransport">>

initializeJq_ListensFirst ==
  /\ pc = "initializeJq"
  /\ pc' = "syncFromS3"
  /\ listening' = TRUE
  /\ startupLog' = startupLog \o <<"startTransport", "initializeJq">>
  /\ \E e \in JqProbes :
       /\ jqConfigured(e) # NoJqConfig
       /\ jqProbe' = e
       /\ JQ_CONFIG' = jqConfigured(e)
  /\ UNCHANGED <<S3_URI, DEFAULT_FILE_PATH, TRANSPORT_TYPE, JQ_PATH, s3Info,
                 localInfo, syncResult, downloads, connected, exited,
                 exitCode>>
  /\ UNCHANGED <<sessionVars, configVars, toolVars, logVars>>

\* await initializeJq() ends: without a jq binary process.exit(1); with one
\* main() goes on to its S3 guard, and syncFromS3 runs up to its first await
\* (HeadObject and stat) unless parseS3Uri throws
initializeJq ==
  /\ pc = "initializeJq"
  /\ \E e \in JqProbes :
       /\ jqProbe' = e
       /\ JQ_CONFIG' = jqConfigured(e)
       /\ IF jqConfigured(e) = NoJqConfig
            THEN /\ pc' = "exit"
                 /\ exited' = TRUE
                 /\ exitCode' = 1
                 /\ startupLog' = startupLog
                 /\ UNCHANGED <<syncResult, connected>>
          ELSE IF S3_URI # <<>> /\ DEFAULT_FILE_PATH # <<>>
            THEN IF parseS3Uri(S3_URI).ok
                   THEN /\ pc' = "syncFromS3"
                        /\ startupLog' = startupLog \o <<"initializeJq">>
                        /\ UNCHANGED <<syncResult, connected, exited,
                                       exitCode>>
                   ELSE EndSync(startupLog \o <<"initializeJq">>, "failed")
          ELSE EndSync(startupLog \o <<"initializeJq">>, "skipped")
  /\ UNCHANGED <<S3_URI, DEFAULT_FILE_PATH, TRANSPORT_TYPE, JQ_PATH, s3Info,
                 localInfo, downloads, listening>>
  /\ UNCHANGED <<sessionVars, configVars, toolVars, logVars>>

\* Promise.all([getS3FileInfo, getLocalFileInfo]) settles: syncFromS3
\* throws when either threw or the object is not there, returns false when
\* isS3FileNewer says no, and otherwise calls downloadFromS3
syncFromS3 ==
  /\ pc = "syncFromS3"
  /\ \E head \in HeadOutcomes, stat \in StatOutcomes :
       IF head.error \/ stat.error
         THEN /\ EndSync(startupLog, "failed")
              /\ UNCHANGED <<s3Info, localInfo, downloads>>
       ELSE /\ s3Info' = [known |-> TRUE, exists |-> head.exists,
                          lastModified |-> head.lastModified]
            /\ localInfo' = [known |-> TRUE, exists |-> stat.exists,
                             lastModified |-> stat.lastModified]
            /\ IF ~head.exists
                 THEN EndSync(startupLog, "failed") /\ downloads' = downloads
               ELSE IF ~isS3FileNewer(s3Info', localInfo')
                 THEN EndSync(startupLog, "uptodate") /\ downloads' = downloads
               ELSE /\ pc' = "downloadFromS3"
                    /\ downloads' = downloads + 1
                    /\ UNCHANGED <<syncResult, connected, exited, exitCode,
                                   startupLog>>
  /\ UNCHANGED <<S3_URI, DEFAULT_FILE_PATH, TRANSPORT_TYPE, JQ_PATH, jqProbe,
                 JQ_CONFIG, listening>>
  /\ UNCHANGED <<sessionVars, configVars, toolVars, logVars>>

\* the promise of downloadFromS3 settles: the write stream finished, or
\* GetObject or a stream failed
downloadFromS3 ==
  /\ pc = "downloadFromS3"
  /\ \E finished \in BOOLEAN :
       EndSync(startupLog, IF finished THEN "downloaded" ELSE "failed")
  /\ UNCHANGED <<S3_URI, DEFAULT_FILE_PATH, TRANSPORT_TYPE, JQ_PATH, jqProbe,
                 JQ_CONFIG, s3Info, localInfo, downloads, listening>>
  /\ UNCHANGED <<sessionVars, configVars, toolVars, logVars>>

\* app.listen(HTTP_PORT, HTTP_HOST, ...) of startHttpServer settles: the
\* server is listening, or the port cannot be bound and the process ends
listen ==
  /\ pc = "listen"
  /\ \E bound \in BOOLEAN :
       /\ listening' = bound
       /\ pc' = IF bound THEN "ready" ELSE "exit"
       /\ exited' = ~bound
       /\ exitCode' = IF bound THEN 0 ELSE 1
  /\ UNCHANGED <<S3_URI, DEFAULT_FILE_PATH, TRANSPORT_TYPE, JQ_PATH, jqProbe,
                 JQ_CONFIG, s3Info, localInfo, syncResult, downloads,
                 connected, startupLog>>
  /\ UNCHANGED <<sessionVars, configVars, toolVars, logVars>>

\* ------------------------------------------------------ the CallTool handler
\* the files of the machine the server runs on; the working directory is /
PathA == <<"/", "data", "a.json">>        \* a file holding JSON
PathBad == <<"/", "data", "bad.json">>    \* a file holding text that is not JSON
PathDir == <<"/", "data">>                \* a directory
PathNone == <<"/", "data", "none.json">>  \* nothing there
PathRel == <<"data", "a.json">>           \* PathA, written relative to /

Paths == {PathA, PathBad, PathDir, PathNone, PathRel}

\* fsPromises.stat(p): what is at p
stat(p) ==
  IF p \in {PathA, PathBad, PathRel} THEN "file"
  ELSE IF p = PathDir THEN "directory"
  ELSE "ENOENT"

\* path.isAbsolute(p)
isAbsolute(p) == p # <<>> /\ Head(p) = "/"

\* fs.access(p) of line 502: fs is the callback API of 'fs' (line 233) and
\* the call passes no callback, which Node.js answers by throwing a
\* TypeError with this code before it looks at p
fs_access(p) == "ERR_INVALID_ARG_TYPE"

\* validateFilePath(filePath): ok with the path, or the message it throws
validateFilePath(filePath) ==
  LET throw(m) == [ok |-> FALSE, value |-> <<>>, error |-> m] IN
  IF filePath = <<>> THEN throw("File path is required")
  ELSE IF ~isAbsolute(filePath) THEN throw("File path must be absolute")
  ELSE IF fs_access(filePath) = "ENOENT" THEN throw("File does not exist")
  ELSE IF fs_access(filePath) # "ok" THEN throw(fs_access(filePath))
  ELSE IF stat(filePath) = "ENOENT" THEN throw("File does not exist")
  ELSE IF stat(filePath) # "file" THEN throw("Path must point to a file")
  ELSE [ok |-> TRUE, value |-> filePath, error |-> ""]

\* loadJsonFile(filePath): ok, or the message it throws
loadJsonFile(filePath) ==
  IF stat(filePath) = "ENOENT" THEN "File not found"
  ELSE IF stat(filePath) = "directory" THEN "EISDIR"
  ELSE IF filePath = PathBad THEN "Invalid JSON in file"
  ELSE "ok"

\* jq.run(query, jsonData, JQ_CONFIG) resolves
jqRuns(query) == query = ".a"

NoCall == [name |-> "", hasArgs |-> FALSE, filePath |-> <<>>, query |-> Null,
           schema |-> Null, schemaFilePath |-> <<>>, toString |-> Null]

\* tools/call requests: args is undefined (hasArgs FALSE) or an object with
\* the properties the tool reads; toString is its own property of that name
\* when the client sent one (a number), else Null
ToolCalls ==
  LET base(n) == [NoCall EXCEPT !.name = n, !.hasArgs = TRUE] IN
  {[NoCall EXCEPT !.name = n] :
     n \in {"query_json", "generate_json_schema", "validate_json_schema",
            "nope"}}
  \cup
  {[c EXCEPT !.toString = ts] :
     ts \in {Null, "1"},
     c \in {[base("query_json") EXCEPT !.filePath = f, !.query = q] :
              f \in Paths \cup {<<>>}, q \in {Null, ".a", ".["}}
           \cup {[base("generate_json_schema") EXCEPT !.filePath = f] :
                   f \in Paths \cup {<<>>}}
           \cup {[base("validate_json_schema") EXCEPT !.schema = sc,
                                                      !.schemaFilePath = f] :
                   sc \in {Null, "valid", "invalid"},
                   f \in {<<>>, PathA, PathBad, PathNone, PathRel}}
           \cup {base("nope")}}

NoResult == [threw |-> FALSE, isError |-> FALSE, text |-> <<>>, read |-> {}]

\* log(`Tool called: ${name}`, args) of line 871 throws: with VERBOSE,
\* logArgs.join(' ') converts args to a string, which is a TypeError for an
\* object whose own toString is not callable
log_Throws(c) == VERBOSE /\ c.hasArgs /\ c.toString # Null

\* the handler rejects with message m
Thrown(m) == [threw |-> TRUE, isError |-> FALSE, text |-> <<m>>, read |-> {}]

\* the catch of line 1005, having read the files of R
ErrorResult(m, R) ==
  [threw |-> FALSE, isError |-> TRUE, text |-> <<"Error: ", m>>, read |-> R]

\* a result without isError, having read the files of R
Result(m, R) ==
  [threw |-> FALSE, isError |-> FALSE, text |-> <<m>>, read |-> R]

\* case "query_json"
query_json(c) ==
  LET v == validateFilePath(IF c.filePath # <<>> THEN c.filePath
                            ELSE DEFAULT_FILE_PATH)
  IN
  IF ~v.ok THEN ErrorResult(v.error, {})
  ELSE IF Falsy(c.query) THEN ErrorResult("Query parameter is required", {})
  ELSE IF loadJsonFile(v.value) # "ok"
    THEN ErrorResult("jq query failed", {v.value})
  ELSE IF ~jqRuns(c.query) THEN ErrorResult("jq query failed", {v.value})
  ELSE Result("Query result:", {v.value})

\* case "generate_json_schema"
generate_json_schema(c) ==
  LET v == validateFilePath(IF c.filePath # <<>> THEN c.filePath
                            ELSE DEFAULT_FILE_PATH)
  IN
  IF ~v.ok THEN ErrorResult(v.error, {})
  ELSE IF loadJsonFile(v.value) # "ok"
    THEN ErrorResult("Schema generation failed", {v.value})
  ELSE Result("Generated JSON Schema:", {v.value})

\* case "validate_json_schema"
validate_json_schema(c) ==
  IF c.schema # Null
    THEN IF c.schema = "valid" THEN Result("JSON Schema is valid!", {})
         ELSE Result("JSON Schema is invalid!", {})
  ELSE IF c.schemaFilePath # <<>>
    THEN LET v == validateFilePath(c.schemaFilePath) IN
         IF ~v.ok THEN ErrorResult(v.error, {})
         ELSE IF loadJsonFile(v.value) # "ok"
           THEN ErrorResult(loadJsonFile(v.value), {v.value})
         ELSE Result("JSON Schema is valid!", {v.value})
  ELSE ErrorResult("Either schema or schemaFilePath must be provided", {})

\* the handler of CallToolRequestSchema for request c
CallToolRequest(c) ==
  IF log_Throws(c) THEN Thrown("Cannot convert object to primitive value")
  ELSE IF c.name \notin {"query_json", "generate_json_schema",
                         "validate_json_schema"}
    THEN ErrorResult("Unknown tool", {})
  ELSE IF ~c.hasArgs
    THEN ErrorResult("Cannot read properties of undefined", {})
  ELSE IF c.name = "query_json" THEN query_json(c)
  ELSE IF c.name = "generate_json_schema" THEN generate_json_schema(c)
  ELSE validate_json_schema(c)

\* no tools/call is being looked at
NoToolCall ==
  /\ VERBOSE = FALSE
  /\ call = NoCall
  /\ result = NoResult

\* ------------------------------------------------------------------ log
\* A line is a sequence of pieces: the fixed words of a message are one
\* piece each, a credential is written character by character.
LogFiles == {"", "/var/log/mcp.log", "/proc/mcp.log"}

\* fs.appendFileSync(file, message) gets through: it throws for a file
\* that cannot be written
appendFileSync(file) == file # "/proc/mcp.log"

\* values of AWS_ACCESS_KEY_ID and AWS_SECRET_ACCESS_KEY: not set, of at
\* most six characters, longer
KeyValues == {<<>>, <<"A", "K", "I", "A">>,
              <<"A", "K", "I", "A", "1", "2", "3", "4">>}

\* `${str}` for a configuration constant held as a string, which may be
\* undefined
template(str) ==
  IF Falsy(str) THEN <<"undefined">>
  ELSE IF str = "secret" THEN <<"s", "e", "c", "r", "e", "t">>
  ELSE <<str>>

\* `${str}` for a configuration constant held as a sequence
templateOf(str) == IF str = <<>> THEN <<"undefined">> ELSE str

\* obfuscate: the first three and the last three characters
obfuscate(str) ==
  IF str = <<>> THEN <<"not set">>
  ELSE IF Len(str) <= 6 THEN str
  ELSE SubSeq(str, 1, 3) \o <<".", ".", ".">>
         \o SubSeq(str, Len(str) - 2, Len(str))

\* logArgs.join(' ')
RECURSIVE join(_)
join(args) ==
  IF args = <<>> THEN <<>>
  ELSE IF Len(args) = 1 THEN args[1]
  ELSE args[1] \o <<" ">> \o join(Tail(args))

IsWhiteSpace(c) == c \in {" ", "\n"}

\* message.trim()
RECURSIVE trim(_)
trim(message) ==
  IF message = <<>> THEN <<>>
  ELSE IF IsWhiteSpace(Head(message)) THEN trim(Tail(message))
  ELSE IF IsWhiteSpace(message[Len(message)])
    THEN trim(SubSeq(message, 1, Len(message) - 1))
  ELSE message

NoOutput == [stdout |-> {}, stderr |-> {}, logFile |-> {}]

\* console.error(text)
console_error(text) == [NoOutput EXCEPT !.stderr = {text}]

\* console.log(text)
console_log(text) == [NoOutput EXCEPT !.stdout = {text}]

console_AlwaysLog(text) == console_log(text)

\* lines 333-337 and 341-345 of log: console.log for HTTP transport,
\* console.error otherwise
console(text) ==
  IF TRANSPORT_TYPE = "http" THEN console_log(text) ELSE console_error(text)

\* what two writes leave behind
Both(a, b) ==
  [stdout |-> a.stdout \cup b.stdout, stderr |-> a.stderr \cup b.stderr,
   logFile |-> a.logFile \cup b.logFile]

\* log({sessionId}, ...args) or log(...args), sessionId being Null in the
\* second form.  The
\* session ids of the model have fewer than eight characters, so
\* sessionId.slice(0, 8) is the whole id.
log(sessionId, args) ==
  LET sessionPrefix == IF Falsy(sessionId) THEN <<>>
                       ELSE <<"[", sessionId, "]">>
      message == <<"[JSON-MCP-SERVER]">> \o sessionPrefix \o <<" ">>
                   \o join(args) \o <<"\n">>
  IN
  IF ~VERBOSE THEN NoOutput
  ELSE IF LOG_FILE # ""
    THEN IF appendFileSync(LOG_FILE)
           THEN [NoOutput EXCEPT !.logFile = {message}]
         ELSE Both(console_error(<<"Failed to write to log file ", LOG_FILE,
                                   ":", " ", "EACCES">>),
                   console(trim(message)))
  ELSE console(trim(message))

\* a line that log wrote, as against a status message
IsLogLine(text) == text # <<>> /\ Head(text) = "[JSON-MCP-SERVER]"

\* everything the writes of W leave behind goes out
Write(W) ==
  /\ stdout' = stdout \cup UNION {o.stdout : o \in W}
  /\ stderr' = stderr \cup UNION {o.stderr : o \in W}
  /\ logFile' = logFile \cup UNION {o.logFile : o \in W}

\* the lines of logConfiguration
ConfigurationLines ==
  {<<"Environment Variables:">>,
   <<"VERBOSE: ", IF VERBOSE THEN "true" ELSE "false">>,
   <<"DEFAULT_FILE_PATH: ">> \o templateOf(DEFAULT_FILE_PATH),
   <<"JQ_PATH: ">> \o template(JQ_PATH),
   <<"S3_URI: ">> \o templateOf(S3_URI),
   <<"AWS_REGION: ", "us-east-1">>,
   <<"TRANSPORT_TYPE: ", TRANSPORT_TYPE>>,
   <<"HTTP_PORT: ", "3000">>,
   <<"HTTP_HOST: ", "localhost">>,
   <<"CORS_ORIGINS: ", "*">>,
   <<"LOG_FILE: ">> \o template(LOG_FILE),
   <<"MCP_VERSION: ", "undefined">>,
   <<"AUTH_TOKEN: ">> \o template(AUTH_TOKEN),
   <<"AWS_ACCESS_KEY_ID: ">> \o templateOf(AWS_ACCESS_KEY_ID),
   <<"AWS_SECRET_ACCESS_KEY: ">> \o templateOf(AWS_SECRET_ACCESS_KEY)}

\* lines 368-370: the module is evaluated
logConfiguration ==
  /\ logPc = "load"
  /\ Write(IF VERBOSE /\ TRANSPORT_TYPE = "http"
             THEN {log(Null, <<l>>) : l \in ConfigurationLines}
             ELSE {})
  /\ logPc' = "main"
  /\ UNCHANGED <<LOG_FILE, AWS_ACCESS_KEY_ID, AWS_SECRET_ACCESS_KEY>>
  /\ UNCHANGED <<httpVars, configVars, startupVars, toolVars>>

\* lines 1213-1222 of main()
main_Starts ==
  /\ logPc = "main"
  /\ Write({log(Null, <<<<"Starting JSON MCP Server...">>>>),
              log(Null, <<<<"Verbose mode:">>,
                          <<IF VERBOSE THEN "true" ELSE "false">>>>),
              log(Null, <<<<"Transport type:">>, <<TRANSPORT_TYPE>>>>),
              log(Null, <<<<"Default file path:">>,
                          IF DEFAULT_FILE_PATH # <<>> THEN DEFAULT_FILE_PATH
                          ELSE <<"not set">>>>)}
             \cup (IF TRANSPORT_TYPE = "http"
                     THEN {log(Null, <<<<"HTTP Host:">>, <<"localhost">>>>),
                           log(Null, <<<<"HTTP Port:">>, <<"3000">>>>),
                           log(Null, <<<<"CORS Origins:">>, <<"*">>>>)}
                     ELSE {}))
  /\ logPc' = "initializeJq"
  /\ UNCHANGED <<LOG_FILE, AWS_ACCESS_KEY_ID, AWS_SECRET_ACCESS_KEY>>
  /\ UNCHANGED <<httpVars, configVars, startupVars, toolVars>>

\* what initializeJq writes: its log lines when it finds jq, the
\* console.error lines of its catch before process.exit(1) when it does not
initializeJq_Writes ==
  /\ logPc = "initializeJq"
  /\ \E e \in JqProbes :
       IF jqConfigured(e) # NoJqConfig
         THEN /\ Write({log(Null, <<<<"jq at: ", detectJq(e)>>>>),
                        log(Null, <<<<"jq binary found and accessible: ",
                                      detectJq(e)>>>>),
                        log(Null, <<<<"jq binary configured successfully">>>>)})
              /\ logPc' = "syncFromS3"
         ELSE /\ Write({console_error(<<"Error: Local jq binary not found">>),
                        console_error(<<>>),
                        console_error(<<"Please install jq using:">>),
                        console_error(<<"Or specify a custom path">>),
                        console_error(<<"Detection error: ", detectJq(e)>>)}
                       \cup (IF detectJq(e) # ""
                               THEN {log(Null, <<<<"jq at: ", detectJq(e)>>>>)}
                               ELSE {}))
              /\ logPc' = "exit"
  /\ UNCHANGED <<LOG_FILE, AWS_ACCESS_KEY_ID, AWS_SECRET_ACCESS_KEY>>
  /\ UNCHANGED <<httpVars, configVars, startupVars, toolVars>>

\* what lines 1228-1254 of main() and syncFromS3 write
syncFromS3_Writes ==
  /\ logPc = "syncFromS3"
  /\ \E outcome \in {"downloaded", "uptodate", "failed"} :
       Write(
         IF S3_URI # <<>> /\ DEFAULT_FILE_PATH # <<>>
           THEN {log(Null, <<<<"Starting S3 sync process for ">> \o S3_URI>>)}
                \cup (IF parseS3Uri(S3_URI).ok
                        THEN {log(Null, <<<<"S3_BUCKET: ">>
                                    \o parseS3Uri(S3_URI).bucket \o <<"\n">>>>),
                              log(Null, <<<<"S3 File Key: ">>
                                    \o parseS3Uri(S3_URI).key \o <<"\n">>>>),
                              log(Null, <<<<"S3 URI: ">> \o S3_URI
                                    \o <<"\n">>>>),
                              log(Null, <<<<"AWS Region: ", "us-east-1", "\n">>>>),
                              log(Null, <<<<"AWS Access Key: ">>
                                    \o obfuscate(AWS_ACCESS_KEY_ID)
                                    \o <<"\n">>>>),
                              log(Null, <<<<"AWS Secret Access Key: ">>
                                    \o obfuscate(AWS_SECRET_ACCESS_KEY)
                                    \o <<"\n">>>>),
                              log(Null, <<<<"Checking sync status for ">>
                                    \o S3_URI>>)}
                        ELSE {})
                \cup (IF outcome = "failed" \/ ~parseS3Uri(S3_URI).ok
                        THEN {log(Null, <<<<"Message: ", "S3 error">>>>),
                              console_error(<<"S3 sync failed: ", "S3 error">>),
                              console_error(<<"Continuing with server startup">>)}
                      ELSE IF outcome = "downloaded"
                        THEN {log(Null, <<<<"syncing: ">> \o S3_URI>>),
                              console_error(<<"File synchronized from S3: ",
                                              "a.json">>)}
                      ELSE {log(Null, <<<<"Local file is up to date: ">>
                                  \o DEFAULT_FILE_PATH>>),
                            console_error(<<"Local file is already up to date: ",
                                            "a.json">>)})
         ELSE IF S3_URI # <<>>
           THEN {console_error(<<"S3 URI provided but no --file-path specified">>)}
         ELSE {})
  /\ logPc' = "startTransport"
  /\ UNCHANGED <<LOG_FILE, AWS_ACCESS_KEY_ID, AWS_SECRET_ACCESS_KEY>>
  /\ UNCHANGED <<httpVars, configVars, startupVars, toolVars>>

\* what lines 1256-1273 of main() and the callback of app.listen write
startTransport_Writes ==
  /\ logPc = "startTransport"
  /\ Write(IF TRANSPORT_TYPE = "http"
               THEN {log(Null, <<<<"Starting HTTP transport on ",
                                   "localhost:3000">>>>),
                     console_error(<<"JSON MCP Server (HTTP) listening on ",
                                     "http://localhost:3000/mcp">>),
                     log(Null, <<<<"Server started with ", "0",
                                   " active sessions">>>>)}
             ELSE IF TRANSPORT_TYPE = "stdio"
               THEN {log(Null, <<<<"Starting stdio transport">>>>),
                     log(Null, <<<<"Server connected and ready">>>>)}
             ELSE {console_error(<<"Server error:", " ",
                                   "Unknown transport type">>)})
  /\ logPc' = IF TRANSPORT_TYPE \in {"http", "stdio"} THEN "serving"
              ELSE "exit"
  /\ UNCHANGED <<LOG_FILE, AWS_ACCESS_KEY_ID, AWS_SECRET_ACCESS_KEY>>
  /\ UNCHANGED <<httpVars, configVars, startupVars, toolVars>>

\* what the handlers write while the server runs: the tool handler under
\* either transport, authenticate, onclose, the catch of the POST handler
\* and the SIGINT handler under http
Messages ==
  {[sessionId |-> Null,
    args |-> <<<<"Tool called: ", "query_json">>, <<"[object Object]">>>>],
   [sessionId |-> Null,
    args |-> <<<<"Tool execution error:">>, <<"File path is required">>>>]}
  \cup (IF TRANSPORT_TYPE = "http"
          THEN {[sessionId |-> Null,
                 args |-> <<<<"Authentication failed - invalid or missing token">>>>],
                [sessionId |-> randomUUID(1),
                 args |-> <<<<"Session cleaned up">>>>],
                [sessionId |-> Null,
                 args |-> <<<<"Error handling MCP request:">>,
                            <<"TypeError">>>>]}
          ELSE {})

handler_Writes ==
  /\ logPc = "serving"
  /\ \E m \in Messages :
       Write({log(m.sessionId, m.args)})
  /\ logPc' = logPc
  /\ UNCHANGED <<LOG_FILE, AWS_ACCESS_KEY_ID, AWS_SECRET_ACCESS_KEY>>
  /\ UNCHANGED <<httpVars, configVars, startupVars, toolVars>>

\* nothing written is being looked at
NoLogs ==
  /\ LOG_FILE = ""
  /\ AWS_ACCESS_KEY_ID = <<>>
  /\ AWS_SECRET_ACCESS_KEY = <<>>
  /\ logPc = "serving"
  /\ stdout = {}
  /\ stderr = {}
  /\ logFile = {}

\* startHttpServer has just returned: no session yet
NoSessions ==
  /\ transports = <<>>
  /\ tr = [t \in TransportIds |-> NoTr]
  /\ ntr = 0
  /\ serverTransport = NoTransport
  /\ accepted = 0
  /\ pending = [t \in TransportIds |-> 0]
  /\ streams = {}
  /\ shuttingDown = FALSE
  /\ exited = FALSE
  /\ exitCode = 0
  /\ last = NoRequest
  /\ deleted = {}
  /\ health = NoProbe

Init ==
  /\ AUTH_TOKEN \in TokenConfigs
  /\ NoSessions
  /\ listening = TRUE
  /\ ConfigLoaded
  /\ Started
  /\ DEFAULT_FILE_PATH = <<>>
  /\ NoToolCall
  /\ NoLogs

\* a connection is accepted and express.json() starts reading the body
Accept ==
  /\ ~exited /\ listening
  /\ OpenConnections < MaxOpen
  /\ accepted' = accepted + 1
  /\ last' = NoRequest
  /\ health' = NoProbe
  /\ UNCHANGED <<configVars, startupVars, toolVars, logVars>>
  /\ UNCHANGED <<AUTH_TOKEN, transports, tr, ntr, serverTransport, pending,
                 streams, listening, shuttingDown, exited, exitCode,
                 deleted>>

\* ---------------------------------------------- transport.handleRequest
\* validateSession of the transport: 0 when the request may proceed
validateSession(trs, t, sid) ==
  IF ~trs[t].initialized THEN 400
  ELSE IF Falsy(sid) THEN 400
  ELSE IF sid # trs[t].sessionId THEN 404
  ELSE 0

\* transport.handleRequest(req, res, req.body) for a POST on transport t:
\* the Host allowlist (enableDnsRebindingProtection / allowedHosts) first,
\* then the JSON-RPC parse, then initialization or session validation
TransportPost(trs, t, sid, body, hostAllowed) ==
  IF ~hostAllowed THEN [status |-> 403, register |-> FALSE, dispatch |-> FALSE]
  ELSE IF body = "invalid"
    THEN [status |-> 400, register |-> FALSE, dispatch |-> FALSE]
  ELSE IF body = "initialize"
    THEN IF trs[t].initialized /\ trs[t].sessionId # Null
           THEN [status |-> 400, register |-> FALSE, dispatch |-> FALSE]
           ELSE [status |-> 200, register |-> TRUE, dispatch |-> FALSE]
  ELSE IF validateSession(trs, t, sid) # 0
    THEN [status |-> validateSession(trs, t, sid), register |-> FALSE,
          dispatch |-> FALSE]
  ELSE [status |-> 200, register |-> FALSE, dispatch |-> TRUE]

\* transport.handleRequest(req, res) for a GET or DELETE on transport t
TransportSession(trs, t, method, sid, hostAllowed) ==
  IF ~hostAllowed THEN [status |-> 403, close |-> FALSE, stream |-> FALSE]
  ELSE IF validateSession(trs, t, sid) # 0
    THEN [status |-> validateSession(trs, t, sid), close |-> FALSE,
          stream |-> FALSE]
  ELSE IF method = "DELETE"
    THEN [status |-> 200, close |-> TRUE, stream |-> FALSE]
  ELSE IF t \in streams
    THEN [status |-> 409, close |-> FALSE, stream |-> FALSE]
  ELSE [status |-> 200, close |-> FALSE, stream |-> TRUE]

\* new StreamableHTTPServerTransport(...); transport.onclose = ...;
\* await mcpServer.connect(transport)
Connected == [NoTr EXCEPT !.started = TRUE, !.engine = mcpServer]

\* the session id the next initialization gets from sessionIdGenerator
NextSessionId ==
  randomUUID(Cardinality({t \in TransportIds : tr[t].initialized}) + 1)

\* ------------------------------------------------------------ POST /mcp
\* what app.use(express.json()), authenticate and the POST handler decide
PostOutcome(authHeader, tokenParam, sid, body, hostAllowed) ==
  LET none == [status |-> 0, by |-> "", invoked |-> FALSE, t |-> 0,
               created |-> FALSE, register |-> FALSE, dispatch |-> FALSE]
  IN
  IF body = "malformed"
    THEN [none EXCEPT !.status = 400, !.by = "express.json"]
  ELSE IF ~Authenticate(authHeader, tokenParam)
    THEN [none EXCEPT !.status = 401, !.by = "authenticate"]
  ELSE IF ~Falsy(sid) /\ Lookup(sid) # Undefined
    THEN IF Lookup(sid) = Inherited
           THEN [none EXCEPT !.status = 500, !.by = "catch"]
           ELSE LET t == Lookup(sid)
                    o == TransportPost(tr, t, sid, body, hostAllowed)
                IN [none EXCEPT !.status = o.status, !.by = "transport",
                                !.invoked = TRUE, !.t = t,
                                !.register = o.register,
                                !.dispatch = o.dispatch]
  ELSE IF Falsy(sid) /\ isInitializeRequest(body)
    THEN LET t == ntr + 1
             o == TransportPost([x \in {t} |-> Connected], t, sid, body,
                                hostAllowed)
         IN [none EXCEPT !.status = o.status, !.by = "transport",
                         !.invoked = TRUE, !.t = t, !.created = TRUE,
                         !.register = o.register, !.dispatch = o.dispatch]
  ELSE [none EXCEPT !.status = 400, !.by = "router"]

HandlePost(authHeader, tokenParam, sid, body, hostAllowed) ==
  \E o \in {PostOutcome(authHeader, tokenParam, sid, body, hostAllowed)} :
  LET newId == NextSessionId
      tr1 == IF o.created THEN [tr EXCEPT ![o.t] = Connected] ELSE tr
  IN
  /\ ~exited /\ accepted > 0
  /\ o.created => ntr < MaxTransports
  /\ ntr' = IF o.created THEN ntr + 1 ELSE ntr
  /\ serverTransport' = IF o.created THEN o.t ELSE serverTransport
  /\ tr' = IF o.register
             THEN [tr1 EXCEPT ![o.t].sessionId = newId,
                              ![o.t].initialized = TRUE]
             ELSE tr1
  /\ transports' = IF o.register THEN onsessioninitialized(newId, o.t)
                   ELSE transports
  /\ pending' = IF o.dispatch THEN [pending EXCEPT ![o.t] = @ + 1]
                ELSE pending
  /\ accepted' = accepted - 1
  /\ last' = [method |-> "POST", authHeader |-> authHeader,
              tokenParam |-> tokenParam, sid |-> sid, body |-> body,
              status |-> o.status, by |-> o.by, invoked |-> o.invoked,
              t |-> o.t]
  /\ health' = NoProbe
  /\ UNCHANGED <<configVars, startupVars, toolVars, logVars>>
  /\ UNCHANGED <<AUTH_TOKEN, streams, listening, shuttingDown, exited,
                 exitCode, deleted>>

\* ----------------------------------------------------- GET, DELETE /mcp
\* what express.json(), authenticate and handleSessionRequest decide;
\* crash: the async handler rejects (transport.handleRequest is not a
\* function) and nothing catches the rejection
SessionOutcome(method, authHeader, tokenParam, sid, body, hostAllowed) ==
  LET none == [status |-> 0, by |-> "", invoked |-> FALSE, t |-> 0,
               close |-> FALSE, stream |-> FALSE, crash |-> FALSE]
  IN
  IF body = "malformed"
    THEN [none EXCEPT !.status = 400, !.by = "express.json"]
  ELSE IF ~Authenticate(authHeader, tokenParam)
    THEN [none EXCEPT !.status = 401, !.by = "authenticate"]
  ELSE IF Falsy(sid) \/ Lookup(sid) = Undefined
    THEN [none EXCEPT !.status = 400, !.by = "router"]
  ELSE IF Lookup(sid) = Inherited
    THEN [none EXCEPT !.by = "unhandledRejection", !.crash = TRUE]
  ELSE LET t == Lookup(sid)
           o == TransportSession(tr, t, method, sid, hostAllowed)
       IN [none EXCEPT !.status = o.status, !.by = "transport",
                       !.invoked = TRUE, !.t = t, !.close = o.close,
                       !.stream = o.stream]

handleSessionRequest(method, authHeader, tokenParam, sid, body, hostAllowed) ==
  \E o \in {SessionOutcome(method, authHeader, tokenParam, sid, body,
                            hostAllowed)} :
  /\ ~exited /\ accepted > 0
  /\ accepted' = accepted - 1
  /\ IF o.close
       THEN /\ CloseAll({o.t})
            /\ deleted' = deleted \cup {sid}
       ELSE /\ streams' = IF o.stream THEN streams \cup {o.t} ELSE streams
            /\ UNCHANGED <<transports, tr, serverTransport, pending, deleted>>
  /\ exited' = o.crash
  /\ exitCode' = IF o.crash THEN 1 ELSE exitCode
  /\ last' = [method |-> method, authHeader |-> authHeader,
              tokenParam |-> tokenParam, sid |-> sid, body |-> body,
              status |-> o.status, by |-> o.by, invoked |-> o.invoked,
              t |-> o.t]
  /\ health' = NoProbe
  /\ UNCHANGED <<configVars, startupVars, toolVars, logVars>>
  /\ UNCHANGED <<AUTH_TOKEN, ntr, listening, shuttingDown>>

\* -------------------------------------------------- the engine answers
\* a tool call dispatched by transport t ends: the handler returned and
\* its response went out, or the client gave up on it
ToolReturns(t) ==
  /\ ~exited
  /\ pending[t] > 0
  /\ pending' = [pending EXCEPT ![t] = @ - 1]
  /\ last' = NoRequest
  /\ health' = NoProbe
  /\ UNCHANGED <<configVars, startupVars, toolVars, logVars>>
  /\ UNCHANGED <<AUTH_TOKEN, transports, tr, ntr, serverTransport, accepted,
                 streams, listening, shuttingDown, exited, exitCode, deleted>>

\* the client closes its GET push channel
StreamClose(t) ==
  /\ ~exited
  /\ t \in streams
  /\ streams' = streams \ {t}
  /\ last' = NoRequest
  /\ health' = NoProbe
  /\ UNCHANGED <<configVars, startupVars, toolVars, logVars>>
  /\ UNCHANGED <<AUTH_TOKEN, transports, tr, ntr, serverTransport, accepted,
                 pending, listening, shuttingDown, exited, exitCode,
                 deleted>>

HealthOutcome_Gated(authHeader, sid, body) ==
  [NoProbe EXCEPT !.authHeader = authHeader, !.sid = sid, !.body = body,
                  !.status = IF body = "malformed" THEN 400
                             ELSE IF Authenticate(authHeader, "") THEN 200
                             ELSE 401,
                  !.answer = IF body # "malformed"
                                  /\ Authenticate(authHeader, "")
                               THEN "healthy" ELSE ""]

\* ---------------------------------------------------------- GET /health
\* app.get('/health') is registered behind cors() and express.json() and
\* before authenticate: express.json() answers 400 to a body it cannot
\* parse, otherwise the handler answers 200 {status: 'healthy'} and reads
\* neither AUTH_TOKEN nor any header
HealthOutcome(authHeader, sid, body) ==
  IF body = "malformed"
    THEN [NoProbe EXCEPT !.authHeader = authHeader, !.sid = sid,
                         !.body = body, !.status = 400]
    ELSE [NoProbe EXCEPT !.authHeader = authHeader, !.sid = sid,
                         !.body = body, !.status = 200,
                         !.answer = "healthy"]

Health ==
  /\ ~exited /\ accepted > 0
  /\ \E authHeader \in AuthHeaders, sid \in SessionHeaders,
        body \in {"", "malformed"} :
       health' = HealthOutcome(authHeader, sid, body)
  /\ accepted' = accepted - 1
  /\ last' = NoRequest
  /\ UNCHANGED <<configVars, startupVars, toolVars, logVars>>
  /\ UNCHANGED <<AUTH_TOKEN, transports, tr, ntr, serverTransport, pending,
                 streams, listening, shuttingDown, exited, exitCode,
                 deleted>>

\* ------------------------------------------------------------- shutdown
\* Object.values(transports): the transports the sweep closes
Registered == {transports[k] : k \in DOMAIN transports}

\* process.on('SIGINT'): close every registered transport, then
\* httpServer.close(...)
SIGINT ==
  /\ ~exited
  /\ CloseAll(Registered)
  /\ listening' = FALSE
  /\ shuttingDown' = TRUE
  /\ last' = NoRequest
  /\ health' = NoProbe
  /\ UNCHANGED <<configVars, startupVars, toolVars, logVars>>
  /\ UNCHANGED <<AUTH_TOKEN, ntr, accepted, exited, exitCode,
                 deleted>>

\* the callback of httpServer.close: every connection has ended
Exit ==
  /\ ~exited
  /\ shuttingDown
  /\ OpenConnections = 0
  /\ exited' = TRUE
  /\ exitCode' = 0
  /\ last' = NoRequest
  /\ health' = NoProbe
  /\ UNCHANGED <<configVars, startupVars, toolVars, logVars>>
  /\ UNCHANGED <<AUTH_TOKEN, transports, tr, ntr, serverTransport, accepted,
                 pending, streams, listening, shuttingDown,
                 deleted>>

\* the request fields a handler reads before it answers are inputs; a field
\* it never reads on its path has no effect and is left at its absent value
ReadsCredentials(body) == body # "malformed" /\ ~Falsy(AUTH_TOKEN)

ReadsSession(body, authHeader, tokenParam) ==
  body # "malformed" /\ Authenticate(authHeader, tokenParam)

Post ==
  /\ accepted > 0
  /\ \E body \in Bodies :
     \E authHeader \in (IF ReadsCredentials(body) THEN AuthHeaders
                         ELSE {NoAuthHeader}) :
     \E tokenParam \in (IF ReadsCredentials(body) THEN TokenParams ELSE {""}) :
     \E sid \in (IF ReadsSession(body, authHeader, tokenParam)
                   THEN SessionHeaders ELSE {Null}) :
     \E hostAllowed \in (IF PostOutcome(authHeader, tokenParam, sid, body,
                                         TRUE).invoked
                           THEN BOOLEAN ELSE {TRUE}) :
       HandlePost(authHeader, tokenParam, sid, body, hostAllowed)

GetOrDelete ==
  /\ accepted > 0
  /\ \E method \in {"GET", "DELETE"}, body \in {"", "malformed"} :
     \E authHeader \in (IF ReadsCredentials(body) THEN AuthHeaders
                         ELSE {NoAuthHeader}) :
     \E tokenParam \in (IF ReadsCredentials(body) THEN TokenParams ELSE {""}) :
     \E sid \in (IF ReadsSession(body, authHeader, tokenParam)
                   THEN SessionHeaders ELSE {Null}) :
     \E hostAllowed \in (IF SessionOutcome(method, authHeader, tokenParam, sid,
                                            body, TRUE).invoked
                           THEN BOOLEAN ELSE {TRUE}) :
       handleSessionRequest(method, authHeader, tokenParam, sid, body,
                            hostAllowed)

Returns == \E t \in TransportIds : ToolReturns(t)

Closes == \E t \in TransportIds : StreamClose(t)

Next ==
  \/ Accept
  \/ Post
  \/ GetOrDelete
  \/ Health
  \/ Returns
  \/ Closes
  \/ SIGINT
  \/ Exit

Spec == Init /\ [][Next]_vars

TypeOK ==
  /\ AUTH_TOKEN \in TokenConfigs
  /\ ntr \in 0..MaxTransports
  /\ serverTransport \in 0..MaxTransports
  /\ accepted \in 0..MaxOpen
  /\ streams \subseteq TransportIds
  /\ OpenConnections <= MaxOpen
  /\ \A k \in DOMAIN transports : transports[k] \in 1..ntr

\* ------------------------------------- faults and connections kept alive
\* transport.handleRequest(req, res, req.body) of the POST handler rejects:
\* a fault on the connection, before the transport has acted on the
\* message.  The catch of the handler answers 500 unless the headers of
\* the response had gone out (headersSent).
HandlePostThrows(authHeader, tokenParam, sid, body, headersSent) ==
  \E o \in {PostOutcome(authHeader, tokenParam, sid, body, TRUE)} :
  /\ ~exited /\ accepted > 0
  /\ o.invoked
  /\ o.created => ntr < MaxTransports
  /\ ntr' = IF o.created THEN ntr + 1 ELSE ntr
  /\ serverTransport' = IF o.created THEN o.t ELSE serverTransport
  /\ tr' = IF o.created THEN [tr EXCEPT ![o.t] = Connected] ELSE tr
  /\ accepted' = accepted - 1
  /\ last' = [method |-> "POST", authHeader |-> authHeader,
              tokenParam |-> tokenParam, sid |-> sid, body |-> body,
              status |-> IF headersSent THEN 200 ELSE 500, by |-> "catch",
              invoked |-> TRUE, t |-> o.t]
  /\ health' = NoProbe
  /\ UNCHANGED <<configVars, startupVars, toolVars, logVars>>
  /\ UNCHANGED <<AUTH_TOKEN, transports, pending, streams, listening,
                 shuttingDown, exited, exitCode, deleted>>

\* transport.handleRequest(req, res) of handleSessionRequest rejects:
\* the async handler has no try/catch and express does not await it, so
\* the rejection is unhandled, nothing is answered and the process ends
\* with code 1
handleSessionRequestThrows(method, authHeader, tokenParam, sid, body) ==
  \E o \in {SessionOutcome(method, authHeader, tokenParam, sid, body, TRUE)} :
  /\ ~exited /\ accepted > 0
  /\ o.invoked
  /\ accepted' = accepted - 1
  /\ exited' = TRUE
  /\ exitCode' = 1
  /\ last' = [method |-> method, authHeader |-> authHeader,
              tokenParam |-> tokenParam, sid |-> sid, body |-> body,
              status |-> 0, by |-> "unhandledRejection", invoked |-> TRUE,
              t |-> o.t]
  /\ health' = NoProbe
  /\ UNCHANGED <<configVars, startupVars, toolVars, logVars>>
  /\ UNCHANGED <<AUTH_TOKEN, transports, tr, ntr, serverTransport, pending,
                 streams, listening, shuttingDown, deleted>>

PostThrows ==
  /\ accepted > 0
  /\ \E body \in {"initialize", "tools/call"} :
     \E authHeader \in (IF ReadsCredentials(body) THEN AuthHeaders
                         ELSE {NoAuthHeader}) :
     \E tokenParam \in (IF ReadsCredentials(body) THEN TokenParams ELSE {""}) :
     \E sid \in SessionHeaders, headersSent \in BOOLEAN :
       HandlePostThrows(authHeader, tokenParam, sid, body, headersSent)

GetOrDeleteThrows ==
  /\ accepted > 0
  /\ \E method \in {"GET", "DELETE"} :
     \E authHeader \in (IF ReadsCredentials("") THEN AuthHeaders
                         ELSE {NoAuthHeader}) :
     \E tokenParam \in (IF ReadsCredentials("") THEN TokenParams ELSE {""}) :
     \E sid \in SessionHeaders :
       handleSessionRequestThrows(method, authHeader, tokenParam, sid, "")

\* the latest step answered a request whose response has ended, so that
\* its connection is idle: not a tool call whose response is open, not a
\* push channel
Answered ==
  \/ health # NoProbe
  \/ /\ last # NoRequest
     /\ last.by # "unhandledRejection"
     /\ ~(last.by = "transport" /\ last.status = 200
            /\ (last.method = "GET" \/ last.body = "tools/call"))

\* the client sends its next request on the connection of the request it
\* was just answered: no new connection is accepted, so httpServer.close()
\* does not stand in the way.  (httpServer.close() ends the connections
\* that are idle when it is called; one that becomes idle later stays open
\* for keepAliveTimeout.)
KeepAlive ==
  /\ ~exited
  /\ Answered
  /\ OpenConnections < MaxOpen
  /\ accepted' = accepted + 1
  /\ last' = NoRequest
  /\ health' = NoProbe
  /\ UNCHANGED <<configVars, startupVars, toolVars, logVars>>
  /\ UNCHANGED <<AUTH_TOKEN, transports, tr, ntr, serverTransport, pending,
                 streams, listening, shuttingDown, exited, exitCode,
                 deleted>>

ServerNext ==
  \/ Accept
  \/ KeepAlive
  \/ Post
  \/ PostThrows
  \/ GetOrDelete
  \/ GetOrDeleteThrows
  \/ Health
  \/ Returns
  \/ Closes
  \/ SIGINT
  \/ Exit

\* the HTTP layer with faults on the connections and connections kept alive
ServerSpec == Init /\ [][ServerNext]_vars

\* an accepted request is handled in the end
Handles == Post \/ PostThrows \/ GetOrDelete \/ GetOrDeleteThrows \/ Health

\* the scheduling of Node.js: a request whose body has arrived is handled,
\* a tool handler runs to its end, the callback of httpServer.close runs
\* once the last connection has ended.  What the clients do (connect, send
\* another request, close a push channel) is up to them.
FairSpec ==
  /\ ServerSpec
  /\ WF_vars(Handles)
  /\ WF_vars(Returns)
  /\ WF_vars(Exit)

\* -------------------------------------------- the module is evaluated
\* lines 281-290 compute the constant of the option at hand
LoadConfig ==
  /\ ~effective.done
  /\ effective' = [done |-> TRUE,
                   value |-> Effective(option, envValue, cliValue)]
  /\ UNCHANGED <<option, envValue, cliValue>>
  /\ UNCHANGED <<httpVars, startupVars, toolVars, logVars>>

\* main() has not run: nothing has been started
NotStarted ==
  /\ pc = "initializeJq"
  /\ jqProbe = NoJqProbe
  /\ JQ_CONFIG = NoJqConfig
  /\ s3Info = NoInfo
  /\ localInfo = NoInfo
  /\ syncResult = "pending"
  /\ downloads = 0
  /\ connected = FALSE
  /\ startupLog = <<>>

ConfigStart ==
  /\ ConfigInit
  /\ AUTH_TOKEN = Null
  /\ NoSessions
  /\ listening = FALSE
  /\ NotStarted
  /\ S3_URI = <<>>
  /\ DEFAULT_FILE_PATH = <<>>
  /\ TRANSPORT_TYPE = "stdio"
  /\ JQ_PATH = ""
  /\ NoToolCall
  /\ NoLogs

ConfigNext == LoadConfig

ConfigSpec == ConfigStart /\ [][ConfigNext]_vars

\* ------------------------------------------------------- main() is called
StartupInit ==
  /\ NotStarted
  /\ S3_URI \in S3Uris
  /\ DEFAULT_FILE_PATH \in {<<>>, PathA}
  /\ TRANSPORT_TYPE \in TransportTypes
  /\ JQ_PATH \in JqPaths
  /\ AUTH_TOKEN = Null
  /\ NoSessions
  /\ listening = FALSE
  /\ ConfigLoaded
  /\ NoToolCall
  /\ NoLogs

StartupNext ==
  \/ initializeJq
  \/ syncFromS3
  \/ downloadFromS3
  \/ listen
  \/ Accept
  \/ Health

StartupSpec == StartupInit /\ [][StartupNext]_vars

\* --------------------------------------------- a tool call reaches the engine
\* one session is live and has a tools/call dispatched to the engine
ToolInit ==
  /\ VERBOSE \in BOOLEAN
  /\ DEFAULT_FILE_PATH \in {<<>>, PathA, PathNone}
  /\ call = NoCall
  /\ result = NoResult
  /\ AUTH_TOKEN = Null
  /\ transports = [k \in {randomUUID(1)} |-> 1]
  /\ tr = [t \in TransportIds |->
             IF t = 1 THEN [Connected EXCEPT !.sessionId = randomUUID(1),
                                             !.initialized = TRUE]
             ELSE NoTr]
  /\ ntr = 1
  /\ serverTransport = 1
  /\ accepted = 0
  /\ pending = [t \in TransportIds |-> IF t = 1 THEN 1 ELSE 0]
  /\ streams = {}
  /\ listening = TRUE
  /\ shuttingDown = FALSE
  /\ exited = FALSE
  /\ exitCode = 0
  /\ last = NoRequest
  /\ deleted = {}
  /\ health = NoProbe
  /\ ConfigLoaded
  /\ Started
  /\ NoLogs

\* the handler runs for a call transport t dispatched and its answer, a
\* result or the JSON-RPC error of a handler that threw, goes out
CallTool(t) ==
  /\ ~exited
  /\ pending[t] > 0
  /\ \E c \in ToolCalls :
       /\ call' = c
       /\ result' = CallToolRequest(c)
  /\ pending' = [pending EXCEPT ![t] = @ - 1]
  /\ UNCHANGED <<AUTH_TOKEN, transports, tr, ntr, serverTransport, accepted,
                 streams, listening, shuttingDown, exited, exitCode, last,
                 deleted, health>>
  /\ UNCHANGED <<configVars, startupVars, VERBOSE, logVars>>

ToolNext == \E t \in TransportIds : CallTool(t)

ToolSpec == ToolInit /\ [][ToolNext]_vars

\* ------------------------------------------------ the process is started
\* node index.js: the module is about to reach line 368
LogInit ==
  /\ VERBOSE \in BOOLEAN
  /\ TRANSPORT_TYPE \in TransportTypes
  /\ LOG_FILE \in LogFiles
  /\ AUTH_TOKEN \in TokenConfigs
  /\ AWS_ACCESS_KEY_ID \in KeyValues
  /\ AWS_SECRET_ACCESS_KEY \in KeyValues
  /\ S3_URI \in {<<>>, <<"s3://", "bucket", "/", "key">>}
  /\ DEFAULT_FILE_PATH \in {<<>>, PathA}
  /\ JQ_PATH \in JqPaths
  /\ logPc = "load"
  /\ stdout = {}
  /\ stderr = {}
  /\ logFile = {}
  /\ NotStarted
  /\ NoSessions
  /\ listening = FALSE
  /\ ConfigLoaded
  /\ call = NoCall
  /\ result = NoResult

LogNext ==
  \/ logConfiguration
  \/ main_Starts
  \/ initializeJq_Writes
  \/ syncFromS3_Writes
  \/ startTransport_Writes
  \/ handler_Writes

LogSpec == LogInit /\ [][LogNext]_vars

\* ------------------------------------------------------------- claims
\* the latest step handled a request
Handled == last # NoRequest

\* the registry, the transports and the engine binding are as before
SessionsUntouched ==
  /\ transports' = transports
  /\ tr' = tr
  /\ ntr' = ntr
  /\ serverTransport' = serverTransport
  /\ pending' = pending
  /\ streams' = streams

\* C1: a request whose session-id header is not in the registry is answered
\* 400 and creates nothing, whatever its body
C1_UnknownSessionIs400 ==
  [][(last' # NoRequest /\ ~Falsy(last'.sid)
        /\ last'.sid \notin DOMAIN transports)
       => (last'.status = 400 /\ SessionsUntouched)]_vars

\* C2 as stated: without AUTH_TOKEN no request is answered 401; with
\* AUTH_TOKEN every request whose credential is missing or wrong is answered
\* 401 and changes nothing
C2_EveryBadCredentialIs401 ==
  [][last' # NoRequest
       => /\ Falsy(AUTH_TOKEN) => last'.status # 401
          /\ (~Falsy(AUTH_TOKEN)
                /\ ProvidedToken(last'.authHeader, last'.tokenParam)
                     # AUTH_TOKEN)
               => (last'.status = 401 /\ SessionsUntouched)]_vars

\* C2 amended: without AUTH_TOKEN no request is answered 401; with AUTH_TOKEN
\* every POST, GET and DELETE whose credential is missing or wrong is answered
\* 401, or 400 when express.json() cannot parse its body, and in both cases
\* changes nothing
C2_GateRejectsFirst ==
  [][last' # NoRequest
       => /\ Falsy(AUTH_TOKEN) => last'.status # 401
          /\ (~Falsy(AUTH_TOKEN)
                /\ ProvidedToken(last'.authHeader, last'.tokenParam)
                     # AUTH_TOKEN)
               => /\ last'.status = IF last'.body = "malformed" THEN 400
                                    ELSE 401
                  /\ ~last'.invoked
                  /\ SessionsUntouched]_vars

C2_Witness ==
  /\ Handled
  /\ last.method = "DELETE"
  /\ last.status = 401
  /\ last.authHeader = [scheme |-> "Bearer", cred |-> "wrong"]
  /\ last.tokenParam = "secret"
  /\ DOMAIN transports # {}

\* C3: once a DELETE has closed session S, S is never in the registry again
\* and every later request bearing S is answered 400 by the router
C3_DeletedNeverRevived ==
  /\ [](deleted \cap DOMAIN transports = {})
  /\ [][(last' # NoRequest /\ last'.sid \in deleted)
          => (last'.status = 400 /\ ~last'.invoked /\ SessionsUntouched)]_vars

C3_Witness ==
  /\ Handled
  /\ last.sid \in deleted
  /\ last.method = "POST"
  /\ last.body = "initialize"
  /\ last.status = 400

C5_EnginePerSession ==
  \A k1, k2 \in DOMAIN transports :
    k1 # k2 => tr[transports[k1]].engine # tr[transports[k2]].engine

\* C6: when the process has exited after SIGINT the registry is empty
C6_ExitLeavesEmptyRegistry ==
  (exited /\ exitCode = 0) => DOMAIN transports = {}

\* C7: after the sweep of the SIGINT handler has started no session is
\* inserted into the registry
C7_NoInsertAfterSweep ==
  [][shuttingDown => DOMAIN transports' \subseteq DOMAIN transports]_vars

\* C8: a transport is in the registry, under its own session id, if and only
\* if it has been initialized and has not been closed
C8_RegistryIsActiveSessions ==
  /\ \A t \in TransportIds :
       (tr[t].initialized /\ ~tr[t].closed)
         <=> (\E k \in DOMAIN transports : transports[k] = t)
  /\ \A k \in DOMAIN transports : tr[transports[k]].sessionId = k

C8_Witness ==
  /\ \E t \in TransportIds : tr[t].initialized /\ tr[t].closed
  /\ \E t \in TransportIds : tr[t].initialized /\ ~tr[t].closed
  /\ DOMAIN transports # {}

\* C9: a POST without session-id header whose body is not an initialize
\* message is answered 400 and constructs, registers and dispatches nothing
C9_NoSessionNoInitIs400 ==
  [][(last' # NoRequest /\ last'.method = "POST"
        /\ last'.by # "authenticate" /\ Falsy(last'.sid)
        /\ ~(last'.body = "initialize"))
       => (last'.status = 400 /\ ~last'.invoked /\ SessionsUntouched)]_vars

C9_Witness ==
  /\ Handled
  /\ last.method = "POST"
  /\ Falsy(last.sid)
  /\ last.body = "tools/call"
  /\ last.status = 400
  /\ last.by = "router"

\* C10 as stated: no request answered 401 or 400 had transport.handleRequest
\* invoked
C10_No4xxAfterDispatch ==
  [][(last' # NoRequest /\ last'.status \in {400, 401})
       => (~last'.invoked /\ pending' = pending)]_vars

\* C10 amended: a request answered 401, or answered 400 while its session-id
\* header resolves to no registered session, never had
\* transport.handleRequest invoked, and no request answered 401 or 400
\* reached the tool handler
C10_RouterRejectsBeforeDispatch ==
  [][(last' # NoRequest /\ last'.status \in {400, 401})
       => /\ pending' = pending
          /\ (last'.status = 401 \/ last'.sid \notin DOMAIN transports)
               => (~last'.invoked /\ SessionsUntouched)]_vars

C10_Witness ==
  /\ Handled
  /\ last.status = 400
  /\ last.sid = "nope"
  /\ DOMAIN transports # {}

\* C12: a registry entry is removed exactly once, in the step that closes
\* its own transport and by no other closure; an entry of a closed transport
\* is gone, and a further closure signal for a closed transport (its onclose
\* hook run again) leaves the registry as it is
C12_RemovalIsIdempotent ==
  [][/\ \A k \in DOMAIN transports \ DOMAIN transports' :
          ~tr[transports[k]].closed /\ tr'[transports[k]].closed
     /\ \A t \in TransportIds :
          tr'[t].closed
            => /\ tr'[t].sessionId \notin DOMAIN transports'
               /\ RegistryAfterClose({t})' = transports']_vars

C12_Witness ==
  /\ shuttingDown
  /\ \E t \in TransportIds : tr[t].closed /\ tr[t].sessionId \in deleted
  /\ \E t \in TransportIds : tr[t].closed /\ tr[t].sessionId \notin deleted

\* C13: an initialize POST the transport rejects for its Host header (403)
\* registers no session, constructs no transport and binds the engine to
\* no transport
C13_RejectedHostBindsNothing ==
  [][(last' # NoRequest /\ last'.method = "POST"
        /\ last'.body = "initialize" /\ Falsy(last'.sid)
        /\ last'.status = 403)
       => /\ transports' = transports
          /\ ntr' = ntr
          /\ serverTransport' = serverTransport
          /\ \A t \in TransportIds : tr'[t].engine = tr[t].engine]_vars

\* C14: GET /health never consults the auth gate or the registry: whatever
\* AUTH_TOKEN, Authorization header and session-id header, a probe that
\* reaches the handler (express.json() accepted its body) is answered 200
\* 'healthy', no probe is answered 401, and every probe leaves the registry,
\* the transports and the engine binding unchanged
C14_HealthBypassesGate ==
  [][health' # NoProbe
       => /\ SessionsUntouched
          /\ last' = NoRequest
          /\ health'.status # 401
          /\ health'.body # "malformed"
               => (health'.status = 200 /\ health'.answer = "healthy")]_vars

C14_Witness ==
  /\ health.status = 200
  /\ health.answer = "healthy"
  /\ ~Falsy(AUTH_TOKEN)
  /\ health.authHeader = [scheme |-> "Bearer", cred |-> "wrong"]
  /\ health.sid = "nope"
  /\ DOMAIN transports # {}

\* C15: with AUTH_TOKEN configured, a request that reaches authenticate is
\* judged by its Bearer header when it has one and by its token query
\* parameter only otherwise: wrong Bearer with the right token parameter is
\* answered 401, no Bearer with the right token parameter is admitted
C15_BearerBeforeQuery ==
  [][(last' # NoRequest /\ ~Falsy(AUTH_TOKEN) /\ last'.body # "malformed")
       => /\ last'.authHeader.scheme = "Bearer"
               => (last'.status = 401 /\ last'.by = "authenticate")
                    <=> (last'.authHeader.cred # AUTH_TOKEN)
          /\ (last'.authHeader.scheme # "Bearer"
                /\ last'.tokenParam = AUTH_TOKEN)
               => (last'.status # 401 /\ last'.by # "authenticate")]_vars

C15_Witness ==
  /\ Handled
  /\ ~Falsy(AUTH_TOKEN)
  /\ last.authHeader = [scheme |-> "Bearer", cred |-> "wrong"]
  /\ last.tokenParam = AUTH_TOKEN
  /\ last.status = 401
  /\ last.by = "authenticate"

C15_WitnessAdmitted ==
  /\ Handled
  /\ ~Falsy(AUTH_TOKEN)
  /\ last.authHeader = NoAuthHeader
  /\ last.tokenParam = AUTH_TOKEN
  /\ last.by = "transport"

\* the path the handler hands to validateFilePath for request c
RequestedPath(c) ==
  IF c.name = "validate_json_schema" THEN c.schemaFilePath
  ELSE IF c.filePath # <<>> THEN c.filePath
  ELSE DEFAULT_FILE_PATH

\* request c asks a tool to validate a path
ValidatesPath(c) ==
  /\ c.hasArgs
  /\ \/ c.name \in {"query_json", "generate_json_schema"}
     \/ c.name = "validate_json_schema" /\ c.schema = Null
          /\ c.schemaFilePath # <<>>

\* p is non-empty, absolute and names an existing regular file
AbsoluteRegularFile(p) == p # <<>> /\ Head(p) = "/" /\ stat(p) = "file"

\* request c is one of the failing invocations: unknown tool, arguments
\* missing, bad path, unreadable or malformed file, missing or failing
\* query, no schema input
Fails(c) ==
  \/ c.name \notin {"query_json", "generate_json_schema",
                    "validate_json_schema"}
  \/ ~c.hasArgs
  \/ ValidatesPath(c)
       /\ (~AbsoluteRegularFile(RequestedPath(c))
             \/ RequestedPath(c) = PathBad)
  \/ c.name = "query_json" /\ c.query # ".a"
  \/ c.name = "validate_json_schema" /\ c.schema = Null
       /\ c.schemaFilePath = <<>>

\* C11: the handler never throws; a failing invocation comes back as a
\* result with isError whose text starts with 'Error: '; the session that
\* issued the call stays registered and the process keeps running
C11_FailuresAreErrorResults ==
  [][call' # call \/ result' # result
       => /\ ~result'.threw
          /\ Fails(call')
               => (result'.isError /\ Head(result'.text) = "Error: ")
          /\ transports' = transports
          /\ ~exited']_vars

\* C16 as stated: the constant of an option is made from the environment
\* variable whenever that is set, and from the argument or its default
\* otherwise
C16_EnvWheneverSet ==
  effective.done
    => effective.value = Convert(option, IF envValue # Unset THEN envValue
                                         ELSE cliValue)

\* C16 amended: the constant of an option is made from the environment
\* variable whenever that is set to a non-empty string, and from the
\* argument or its default otherwise
C16_EnvWhenNonEmpty ==
  effective.done
    => effective.value = Convert(option,
                                 IF envValue # Unset /\ envValue # Empty
                                   THEN envValue ELSE cliValue)

C16_Witness ==
  /\ effective.done
  /\ option = "PORT"
  /\ envValue = <<"8", "0">>
  /\ cliValue = <<"9", "0">>
  /\ effective.value = 80

\* C17: validateFilePath(p) returns p exactly when p is non-empty, absolute
\* and names an existing regular file and throws the message of the failed
\* check otherwise, and a tool reads no file but the one that passed
C17_ValidatesAbsoluteFiles ==
  (call # NoCall /\ ValidatesPath(call))
    => LET p == RequestedPath(call)
           v == validateFilePath(p)
       IN /\ v.ok <=> AbsoluteRegularFile(p)
          /\ v.ok => v.value = p
          /\ ~v.ok
               => v.error =
                    IF p = <<>> THEN "File path is required"
                    ELSE IF Head(p) # "/" THEN "File path must be absolute"
                    ELSE IF stat(p) = "ENOENT" THEN "File does not exist"
                    ELSE "Path must point to a file"
          /\ result.read \subseteq {q \in {p} : AbsoluteRegularFile(q)}

\* C18: downloadFromS3 is called if and only if S3_URI and
\* DEFAULT_FILE_PATH are set, HeadObject found the object, and the local
\* file is missing or older than the object; an object that is not there
\* ends the sync as failed without a download, and an object without
\* LastModified never replaces a local file
C18_DownloadIffNewer ==
  /\ downloads \in {0, 1}
  /\ downloads = 1
       <=> /\ S3_URI # <<>> /\ DEFAULT_FILE_PATH # <<>>
           /\ s3Info.exists
           /\ \/ ~localInfo.exists
              \/ s3Info.lastModified > localInfo.lastModified
  /\ (s3Info.known /\ ~s3Info.exists)
       => (syncResult = "failed" /\ downloads = 0)
  /\ (localInfo.exists /\ s3Info.lastModified = 0) => downloads = 0

C18_Witness ==
  /\ downloads = 1
  /\ localInfo.exists
  /\ s3Info.lastModified > localInfo.lastModified
  /\ syncResult = "downloaded"

\* C19: when the S3 step has failed and TRANSPORT_TYPE is http or stdio,
\* the transport has been started: stdio is connected, http is listening
\* or waiting for app.listen to settle, and the process has not exited
\* unless app.listen itself failed
C19_SyncFailureStillStarts ==
  (syncResult = "failed" /\ TRANSPORT_TYPE \in {"http", "stdio"})
    => /\ startupLog = <<"initializeJq", "syncFromS3", "startTransport">>
       /\ TRANSPORT_TYPE = "stdio" => (connected /\ pc = "ready" /\ ~exited)
       /\ TRANSPORT_TYPE = "http"
            => \/ pc = "listen" /\ ~exited
               \/ pc = "ready" /\ listening /\ ~exited
               \/ pc = "exit" /\ ~listening /\ exitCode = 1

C19_Witness ==
  /\ syncResult = "failed"
  /\ s3Info.known
  /\ TRANSPORT_TYPE = "http"
  /\ listening
  /\ accepted > 0

\* C20: the steps of main() end in the order initializeJq, syncFromS3,
\* transport start; while jq detection, the S3 check or the download is
\* outstanding the server neither listens nor is connected and has accepted
\* nothing, and whenever it listens, is connected or has accepted a
\* connection the S3 step is over
C20_StartupIsOrdered ==
  /\ \E n \in 0..3 :
       startupLog = SubSeq(<<"initializeJq", "syncFromS3", "startTransport">>,
                           1, n)
  /\ pc \in {"initializeJq", "syncFromS3", "downloadFromS3"}
       => (~listening /\ ~connected /\ accepted = 0 /\ health = NoProbe
             /\ syncResult = "pending")
  /\ (listening \/ connected \/ accepted > 0 \/ health # NoProbe)
       => /\ syncResult # "pending"
          /\ startupLog = <<"initializeJq", "syncFromS3", "startTransport">>

C20_Witness ==
  /\ syncResult = "downloaded"
  /\ listening
  /\ health # NoProbe

\* the machine offered initializeJq a jq binary on the path it took
JqDetected ==
  \/ jqProbe.whichJq # ""
  \/ jqProbe.platform = "win32" /\ jqProbe.whichJqExe # ""
  \/ jqProbe.platform # "win32" /\ jqProbe.commonPathExists

\* C21: once initializeJq has run, either no jq path is configured and none
\* was detected, or the chosen path is not accessible, and then the process
\* has exited with code 1 with the S3 step never begun and no transport
\* started; or JQ_CONFIG holds the configured or detected path, which was
\* found accessible.  Whenever a transport is started or being started,
\* JQ_CONFIG holds such a path.
C21_JqRequired ==
  /\ jqProbe # NoJqProbe
       => IF (JQ_PATH = "" /\ ~JqDetected) \/ ~jqProbe.accessible
            THEN /\ exited /\ exitCode = 1
                 /\ syncResult = "pending" /\ downloads = 0
                 /\ s3Info = NoInfo /\ startupLog = <<>>
                 /\ ~listening /\ ~connected /\ accepted = 0
            ELSE /\ JQ_CONFIG.input = "json"
                 /\ JQ_CONFIG.jqPath # ""
                 /\ JQ_CONFIG.jqPath =
                      IF JQ_PATH # "" THEN JQ_PATH
                      ELSE IF jqProbe.whichJq # "" THEN jqProbe.whichJq
                      ELSE IF jqProbe.platform = "win32"
                        THEN jqProbe.whichJqExe
                      ELSE commonPath
  /\ (listening \/ connected \/ accepted > 0 \/ pc \in {"listen", "ready"})
       => (JQ_CONFIG.jqPath # "" /\ jqProbe.accessible)

C21_Witness ==
  /\ JQ_PATH = ""
  /\ jqProbe.whichJq = ""
  /\ JQ_CONFIG.jqPath = commonPath
  /\ syncResult = "downloaded"
  /\ accepted > 0

C21_WitnessExit ==
  /\ JQ_PATH = CustomJq
  /\ ~jqProbe.accessible
  /\ exited
  /\ S3_URI # <<>>
  /\ TRANSPORT_TYPE = "stdio"

\* the lines written so far, wherever they went
Lines == stdout \cup stderr \cup logFile

\* line holds the characters of secret one after the other
Contains(line, secret) ==
  \E i \in 1..Len(line) :
    /\ i + Len(secret) - 1 <= Len(line)
    /\ SubSeq(line, i, i + Len(secret) - 1) = secret

\* C22: no line written holds the full value of AUTH_TOKEN,
\* AWS_ACCESS_KEY_ID or AWS_SECRET_ACCESS_KEY
C22_CredentialsObfuscated ==
  \A line \in Lines :
    /\ ~Falsy(AUTH_TOKEN) => ~Contains(line, template(AUTH_TOKEN))
    /\ AWS_ACCESS_KEY_ID # <<>> => ~Contains(line, AWS_ACCESS_KEY_ID)
    /\ AWS_SECRET_ACCESS_KEY # <<>> => ~Contains(line, AWS_SECRET_ACCESS_KEY)

C23_WitnessHttp ==
  /\ TRANSPORT_TYPE = "http"
  /\ VERBOSE
  /\ LOG_FILE = ""
  /\ logPc = "serving"
  /\ \E line \in stdout : Contains(line, <<"Session cleaned up">>)
  /\ stderr # {}

\* tool calls in dispatch against engine instance e: handed to its handler
\* and not yet answered
InDispatch(e) ==
  SumTo([t \in TransportIds |-> IF tr[t].engine = e THEN pending[t] ELSE 0],
        MaxTransports)

Threw(r) == r # NoRequest /\ r.by \in {"catch", "unhandledRejection"}

\* C25: an exception thrown while a POST, GET or DELETE on /mcp is handled
\* is caught, answered 500 unless the headers had gone out, leaves the
\* process running and leaves the registry as it is
C25_ExceptionsAreCaught ==
  [][Threw(last')
       => /\ last'.by = "catch"
          /\ last'.status \in {500, 200}
          /\ ~exited'
          /\ transports' = transports]_vars

\* the latest step handled an initialization request (POST, no session-id
\* header, initialize message) that reached the create branch
Initialization(r) ==
  /\ r # NoRequest
  /\ r.method = "POST" /\ Falsy(r.sid) /\ r.body = "initialize"
  /\ r.invoked

Succeeded(r) == r.by = "transport" /\ r.status = 200

\* C26: every successful initialization, whatever is in flight beside it,
\* gets a transport constructed in that step, a session id no transport
\* has had before, and one new registry entry under that id; every entry
\* that was there stays as it was, and no two entries name one transport
C26_ConcurrentInitializations ==
  /\ [][(Initialization(last') /\ Succeeded(last'))
          => /\ ntr' = ntr + 1 /\ last'.t = ntr'
             /\ tr[last'.t] = NoTr
             /\ \A t \in TransportIds :
                  t # last'.t => tr'[last'.t].sessionId # tr[t].sessionId
             /\ DOMAIN transports'
                  = DOMAIN transports \cup {tr'[last'.t].sessionId}
             /\ tr'[last'.t].sessionId \notin DOMAIN transports
             /\ transports'[tr'[last'.t].sessionId] = last'.t
             /\ \A k \in DOMAIN transports : transports'[k] = transports[k]]_vars
  /\ [](\A k1, k2 \in DOMAIN transports :
          transports[k1] = transports[k2] => k1 = k2)

C26_Witness ==
  /\ Initialization(last) /\ Succeeded(last)
  /\ last.t = 2
  /\ Cardinality(DOMAIN transports) = 2
  /\ accepted > 0

\* C27: an initialization that fails after its transport was constructed
\* leaves the registry, the transports of the sessions there are and the
\* transport the engine is bound to as they were
C27_FailedInitDisturbsNothing ==
  [][(Initialization(last') /\ ~Succeeded(last') /\ DOMAIN transports # {})
       => /\ transports' = transports
          /\ \A k \in DOMAIN transports :
               tr'[transports[k]] = tr[transports[k]]
          /\ serverTransport' = serverTransport]_vars

\* C28: the onclose hook of any one transport removes the entry under that
\* transport's session id and no other, and a DELETE that closes a session
\* removes exactly the entry of its session-id header and leaves every
\* other entry and the transport it names as they were
C28_CloseRemovesOnlyOwnEntry ==
  /\ [](\A t \in TransportIds :
          /\ DOMAIN RegistryAfterClose({t})
               = DOMAIN transports \ {tr[t].sessionId}
          /\ \A k \in DOMAIN RegistryAfterClose({t}) :
               RegistryAfterClose({t})[k] = transports[k])
  /\ [][(last' # NoRequest /\ last'.method = "DELETE"
           /\ last'.by = "transport" /\ last'.status = 200)
          => /\ DOMAIN transports' = DOMAIN transports \ {last'.sid}
             /\ \A k \in DOMAIN transports' :
                  /\ transports'[k] = transports[k]
                  /\ tr'[transports[k]] = tr[transports[k]]]_vars

C28_Witness ==
  /\ Handled
  /\ last.method = "DELETE"
  /\ last.status = 200
  /\ last.sid \notin DOMAIN transports
  /\ \E k \in DOMAIN transports :
       tr[transports[k]].initialized /\ ~tr[transports[k]].closed

\* C29: a session-id header resolves to a transport only if it is in the
\* registry, and then to the transport registered under it; a request that
\* reaches the handler with any other header value is answered 400 by the
\* handler and nothing is invoked or dispatched
C29_OnlyInsertedIdsResolve ==
  [][(last' # NoRequest /\ ~Falsy(last'.sid)
        /\ last'.by \notin {"express.json", "authenticate"})
       => IF last'.sid \in DOMAIN transports
            THEN last'.invoked /\ last'.t = transports[last'.sid]
            ELSE /\ last'.by = "router" /\ last'.status = 400
                 /\ ~last'.invoked
                 /\ pending' = pending
                 /\ ~exited']_vars

\* C30: once the SIGINT handler has run, the process exits with code 0 in
\* the end
C30_ShutdownTerminates == shuttingDown ~> (exited /\ exitCode = 0)

====
